---- MODULE Spec2Model ----
(***************************************************************************)
(* Personal finance tracker: the HTTP service (src/server.js, an in-memory *)
(* array of transactions) and the command-line tool (src/cli.js, a JSON    *)
(* file of transactions driven by a menu of chained readline prompts).     *)
(*                                                                         *)
(* JavaScript values are modelled as tagged records (number, string,       *)
(* undefined, null, NaN, Infinity); strings are sequences of one-character *)
(* strings so that trim, parseInt and parseFloat are computed, not assumed.*)
(* Numbers are integers: fractional amounts are outside the model.         *)
(***************************************************************************)
EXTENDS Integers, Sequences, FiniteSets, TLC

(* ------------------------------ bounds --------------------------------- *)

\* Largest value the clock (Date.now()) reaches.
MaxClock == 2

\* Largest number of transactions a store holds: an add beyond it is not modelled.
MaxLen == 2

(* -------------------------- JavaScript values -------------------------- *)

Num(i) == [k |-> "num", n |-> i, s |-> <<>>]
Str(chars) == [k |-> "str", n |-> 0, s |-> chars]
Undef == [k |-> "undef", n |-> 0, s |-> <<>>]
Null == [k |-> "null", n |-> 0, s |-> <<>>]
NaN == [k |-> "nan", n |-> 0, s |-> <<>>]
\* sign is 1 for Infinity and -1 for -Infinity
Inf(sign) == [k |-> "inf", n |-> sign, s |-> <<>>]

INCOME == <<"i", "n", "c", "o", "m", "e">>
EXPENSE == <<"e", "x", "p", "e", "n", "s", "e">>
TRANSFER == <<"t", "r", "a", "n", "s", "f", "e", "r">>
INFINITY == <<"I", "n", "f", "i", "n", "i", "t", "y">>

DigitChars == <<"0", "1", "2", "3", "4", "5", "6", "7", "8", "9">>

IsDigit(c) == \E d \in 1..10 : DigitChars[d] = c

DigitVal(c) == (CHOOSE d \in 1..10 : DigitChars[d] = c) - 1

IsSpace(c) == c = " "

\* a === b
StrictEq(a, b) == a.k # "nan" /\ a = b

RECURSIVE NatToStr(_)
NatToStr(i) ==
  IF i < 10 THEN <<DigitChars[i + 1]>>
  ELSE NatToStr(i \div 10) \o <<DigitChars[(i % 10) + 1]>>

\* Number.prototype.toString for integers
NumToStr(i) == IF i < 0 THEN <<"-">> \o NatToStr(0 - i) ELSE NatToStr(i)

RECURSIVE TrimStart(_)
TrimStart(chars) ==
  IF chars # <<>> /\ IsSpace(Head(chars)) THEN TrimStart(Tail(chars)) ELSE chars

RECURSIVE TrimEnd(_)
TrimEnd(chars) ==
  IF chars # <<>> /\ IsSpace(chars[Len(chars)])
  THEN TrimEnd(SubSeq(chars, 1, Len(chars) - 1))
  ELSE chars

\* String.prototype.trim
Trim(chars) == TrimEnd(TrimStart(chars))

\* the longest prefix of decimal digits
RECURSIVE DigitPrefix(_)
DigitPrefix(chars) ==
  IF chars # <<>> /\ IsDigit(Head(chars))
  THEN <<Head(chars)>> \o DigitPrefix(Tail(chars))
  ELSE <<>>

RECURSIVE DigitsToNat(_)
DigitsToNat(chars) ==
  IF chars = <<>> THEN 0
  ELSE 10 * DigitsToNat(SubSeq(chars, 1, Len(chars) - 1)) + DigitVal(chars[Len(chars)])

StartsWith(chars, prefix) ==
  Len(chars) >= Len(prefix) /\ SubSeq(chars, 1, Len(prefix)) = prefix

SignOf(chars) == IF chars # <<>> /\ Head(chars) = "-" THEN 0 - 1 ELSE 1

Unsigned(chars) ==
  IF chars # <<>> /\ Head(chars) \in {"-", "+"} THEN Tail(chars) ELSE chars

\* parseInt(string): leading white space, a sign, the longest digit prefix
ParseInt(v) ==
  IF v.k = "num" THEN v
  ELSE IF v.k # "str" THEN NaN
  ELSE LET t == TrimStart(v.s)
           d == DigitPrefix(Unsigned(t))
       IN IF d = <<>> THEN NaN ELSE Num(SignOf(t) * DigitsToNat(d))

\* parseFloat(string): as parseInt, and it accepts the word Infinity
ParseFloat(v) ==
  IF v.k # "str" THEN NaN
  ELSE LET t == TrimStart(v.s)
           u == Unsigned(t)
           d == DigitPrefix(u)
       IN IF StartsWith(u, INFINITY) THEN Inf(SignOf(t))
          ELSE IF d = <<>> THEN NaN
          ELSE Num(SignOf(t) * DigitsToNat(d))

\* ToNumber of a value
ToNumber(v) ==
  CASE v.k = "num" -> v
    [] v.k = "inf" -> v
    [] v.k = "null" -> Num(0)
    [] v.k = "str" ->
         LET t == Trim(v.s)
             u == Unsigned(t)
         IN IF t = <<>> THEN Num(0)
            ELSE IF u = INFINITY THEN Inf(SignOf(t))
            ELSE IF u # <<>> /\ DigitPrefix(u) = u THEN Num(SignOf(t) * DigitsToNat(u))
            ELSE NaN
    [] OTHER -> NaN

\* ToString of a value
ToStr(v) ==
  CASE v.k = "num" -> NumToStr(v.n)
    [] v.k = "str" -> v.s
    [] v.k = "undef" -> <<"u", "n", "d", "e", "f", "i", "n", "e", "d">>
    [] v.k = "null" -> <<"n", "u", "l", "l">>
    [] v.k = "nan" -> <<"N", "a", "N">>
    [] OTHER -> IF v.n < 0 THEN <<"-">> \o INFINITY ELSE INFINITY

\* x + y on numbers (after ToNumber)
NumAdd(x, y) ==
  IF x.k = "nan" \/ y.k = "nan" THEN NaN
  ELSE IF x.k = "inf" /\ y.k = "inf" THEN (IF x.n = y.n THEN x ELSE NaN)
  ELSE IF x.k = "inf" THEN x
  ELSE IF y.k = "inf" THEN y
  ELSE Num(x.n + y.n)

NumNeg(x) ==
  IF x.k = "num" THEN Num(0 - x.n)
  ELSE IF x.k = "inf" THEN Inf(0 - x.n)
  ELSE x

\* a + b: string concatenation when either operand is a string
JsAdd(a, b) ==
  IF a.k = "str" \/ b.k = "str" THEN Str(ToStr(a) \o ToStr(b))
  ELSE NumAdd(ToNumber(a), ToNumber(b))

\* a - b: always numeric
JsSub(a, b) == NumAdd(ToNumber(a), NumNeg(ToNumber(b)))

\* a > 0, a <= 0, a < b, ... on numbers: false whenever an operand is NaN
NumLess(x, y) ==
  IF x.k = "nan" \/ y.k = "nan" THEN FALSE
  ELSE IF x.k = "inf" THEN x.n < 0 /\ ~(y.k = "inf" /\ y.n < 0)
  ELSE IF y.k = "inf" THEN y.n > 0
  ELSE x.n < y.n

NumLeq(x, y) == NumLess(x, y) \/ (x.k # "nan" /\ x = y)

\* JSON.parse(JSON.stringify(v)) of a scalar: NaN and Infinity are written as null
JsonValue(v) == IF v.k \in {"nan", "inf"} THEN Null ELSE v

(* ------------------------------- state --------------------------------- *)

VARIABLES
  proc,          \* which program runs: "server" (node server.js) or "cli" (node cli.js)
  now,           \* the system clock read by Date.now()
  act,           \* the handler or callback that ran last
  transactions,  \* server.js: the in-memory array
  req,           \* server.js: the request handled last (params.id, body, query.limit)
  res,           \* server.js: the response sent last (status, body)
  issued,        \* every identifier handed out by an add so far
  dataFile,      \* cli.js: the parsed content of DATA_FILE
  pc,            \* cli.js: the rl.question whose answer is awaited, or "closed"
  addType,       \* cli.js: the type argument of the addTransaction in progress, else <<>>
  description,   \* cli.js: the description answered in the add in progress, else <<>>
  line,          \* cli.js: the line answered last
  out,           \* cli.js: what the callback that ran last printed
  exported,      \* cli.js: the CSV text the callback that ran last wrote, else <<>>
  questions,     \* cli.js: the number of rl.question calls not yet answered
  crashed        \* cli.js: an exception left a callback uncaught

vars == <<proc, now, act, transactions, req, res, issued,
          dataFile, pc, addType, description, line, out, exported, questions, crashed>>

serverVars == <<transactions, req, res>>

cliVars == <<dataFile, pc, addType, description, line, out, exported, questions, crashed>>

(* ------------------------------ server.js ------------------------------ *)

\* a request body {description, amount, type, id}; Undef is an absent key
Body(d, a, t, i) == [id |-> i, description |-> d, amount |-> a, type |-> t]

NoBody == Body(Undef, Undef, Undef, Undef)

NoReq == [id |-> Undef, body |-> NoBody, limit |-> Undef]

PostBodies ==
  { Body(Str(<<"a">>), Num(5), Str(INCOME), Undef),
    Body(Str(<<"b">>), Num(3), Str(EXPENSE), Undef),
    Body(Str(<<" ">>), Num(0 - 5), Str(TRANSFER), Undef) }

PutBodies ==
  { Body(Undef, Num(0), Undef, Undef),
    Body(Undef, Undef, Undef, Str(<<"1">>)) }

IdParams == { Str(<<"0">>), Str(<<"1">>), Str(<<"2">>) }

LimitParams == { Undef, Str(<<"a">>), Str(<<"0">>), Str(<<"1">>), Str(<<"-", "1">>) }

\* findIndex whose -1 is taken for an index: splice(-1, 1) addresses the last element
FindIndexOrLast(arr, id) ==
  IF \E i \in 1..Len(arr) : StrictEq(arr[i].id, id)
  THEN CHOOSE i \in 1..Len(arr) :
         /\ StrictEq(arr[i].id, id)
         /\ \A j \in 1..(i - 1) : ~StrictEq(arr[j].id, id)
  ELSE Len(arr)

\* Array.prototype.findIndex(t => t.id === id), 1-based, 0 when nothing matches
FindIndex(arr, id) ==
  IF \E i \in 1..Len(arr) : StrictEq(arr[i].id, id)
  THEN CHOOSE i \in 1..Len(arr) :
         /\ StrictEq(arr[i].id, id)
         /\ \A j \in 1..(i - 1) : ~StrictEq(arr[j].id, id)
  ELSE 0

\* { ...old, ...body }
Spread(old, body) ==
  [ id |-> IF body.id = Undef THEN old.id ELSE body.id,
    description |-> IF body.description = Undef THEN old.description ELSE body.description,
    amount |-> IF body.amount = Undef THEN old.amount ELSE body.amount,
    type |-> IF body.type = Undef THEN old.type ELSE body.type ]

\* Array.prototype.unshift, were it used in place of push
Unshift(arr, t) == <<t>> \o arr

\* Array.prototype.push
Push(arr, t) == Append(arr, t)

\* splice(index, 2): a delete count of two
SpliceTwo(arr, i) == SubSeq(arr, 1, i - 1) \o SubSeq(arr, i + 2, Len(arr))

\* Array.prototype.splice(index, 1), index 1-based
Splice(arr, i) == SubSeq(arr, 1, i - 1) \o SubSeq(arr, i + 1, Len(arr))

\* app.post('/api/transactions')
Post(body) ==
  /\ proc = "server"
  /\ Len(transactions) < MaxLen
  /\ LET transaction == [ id |-> Str(NumToStr(now)),
                          description |-> body.description,
                          amount |-> body.amount,
                          type |-> body.type ]
     IN /\ transactions' = Push(transactions, transaction)
        /\ res' = [status |-> 201, body |-> transaction]
        /\ issued' = issued \cup {transaction.id}
  /\ req' = [NoReq EXCEPT !.body = body]
  /\ act' = "Post"
  /\ UNCHANGED <<proc, now>>
  /\ UNCHANGED cliVars

\* app.put('/api/transactions/:id')
Put(id, body) ==
  /\ proc = "server"
  /\ LET index == FindIndex(transactions, id)
     IN IF index # 0
        THEN /\ transactions' =
                  [transactions EXCEPT ![index] = Spread(transactions[index], body)]
             /\ res' = [status |-> 200, body |-> Spread(transactions[index], body)]
        ELSE /\ transactions' = transactions
             /\ res' = [status |-> 404, body |-> "Transaction not found"]
  /\ req' = [NoReq EXCEPT !.id = id, !.body = body]
  /\ act' = "Put"
  /\ UNCHANGED <<proc, now, issued>>
  /\ UNCHANGED cliVars

\* app.delete('/api/transactions/:id')
Delete(id) ==
  /\ proc = "server"
  /\ LET index == FindIndex(transactions, id)
     IN IF index # 0
        THEN /\ transactions' = Splice(transactions, index)
             /\ res' = [status |-> 204, body |-> ""]
        ELSE /\ transactions' = transactions
             /\ res' = [status |-> 404, body |-> "Transaction not found"]
  /\ req' = [NoReq EXCEPT !.id = id]
  /\ act' = "Delete"
  /\ UNCHANGED <<proc, now, issued>>
  /\ UNCHANGED cliVars

RECURSIVE ApiBalanceFrom(_, _)
ApiBalanceFrom(balance, arr) ==
  IF arr = <<>> THEN balance
  ELSE ApiBalanceFrom(
         IF StrictEq(Head(arr).type, Str(INCOME))
         THEN JsAdd(balance, Head(arr).amount)
         ELSE JsSub(balance, Head(arr).amount),
         Tail(arr))

\* the balance of GET /api/balance
ApiBalance(arr) == ApiBalanceFrom(Num(0), arr)

\* arr.filter(t => t.type === type)
RECURSIVE FilterType(_, _)
FilterType(arr, type) ==
  IF arr = <<>> THEN <<>>
  ELSE IF StrictEq(Head(arr).type, Str(type))
       THEN <<Head(arr)>> \o FilterType(Tail(arr), type)
       ELSE FilterType(Tail(arr), type)

\* arr.reduce((sum, t) => sum + t.amount, sum)
RECURSIVE SumAmounts(_, _)
SumAmounts(sum, arr) ==
  IF arr = <<>> THEN sum
  ELSE SumAmounts(JsAdd(sum, Head(arr).amount), Tail(arr))

\* the body of GET /api/summary
ApiSummary(arr) ==
  LET totalIncome == SumAmounts(Num(0), FilterType(arr, INCOME))
      totalExpense == SumAmounts(Num(0), FilterType(arr, EXPENSE))
  IN [ totalIncome |-> totalIncome,
       totalExpense |-> totalExpense,
       balance |-> JsSub(totalIncome, totalExpense),
       transactionCount |-> Len(arr) ]

\* app.get('/api/balance')
GetBalance ==
  /\ proc = "server"
  /\ res' = [status |-> 200, body |-> ApiBalance(transactions)]
  /\ req' = NoReq
  /\ act' = "GetBalance"
  /\ UNCHANGED <<proc, now, issued, transactions>>
  /\ UNCHANGED cliVars

\* app.get('/api/summary')
GetSummary ==
  /\ proc = "server"
  /\ res' = [status |-> 200, body |-> ApiSummary(transactions)]
  /\ req' = NoReq
  /\ act' = "GetSummary"
  /\ UNCHANGED <<proc, now, issued, transactions>>
  /\ UNCHANGED cliVars

DefaultLimit == 10

\* parseInt(req.query.limit) || 10
LimitOf(q) ==
  LET parsed == ParseInt(q)
  IN IF parsed.k = "nan" \/ parsed.n = 0 THEN DefaultLimit ELSE parsed.n

\* Array.prototype.slice(start): a negative start counts from the end
Slice(arr, start) ==
  LET from == IF start < 0
              THEN (IF Len(arr) + start < 0 THEN 0 ELSE Len(arr) + start)
              ELSE (IF start > Len(arr) THEN Len(arr) ELSE start)
  IN SubSeq(arr, from + 1, Len(arr))

\* the body of GET /api/transactions/recent
Recent(arr, q) == Slice(arr, 0 - LimitOf(q))

\* app.get('/api/transactions/recent')
GetRecent(q) ==
  /\ proc = "server"
  /\ res' = [status |-> 200, body |-> Recent(transactions, q)]
  /\ req' = [NoReq EXCEPT !.limit = q]
  /\ act' = "GetRecent"
  /\ UNCHANGED <<proc, now, issued, transactions>>
  /\ UNCHANGED cliVars

\* app.get('/api/transactions')
GetTransactions ==
  /\ proc = "server"
  /\ res' = [status |-> 200, body |-> transactions]
  /\ req' = NoReq
  /\ act' = "GetTransactions"
  /\ UNCHANGED <<proc, now, issued, transactions>>
  /\ UNCHANGED cliVars

\* time passes between two handlers
Tick ==
  /\ now < MaxClock
  /\ now' = now + 1
  /\ act' = "Tick"
  /\ UNCHANGED <<proc, issued>>
  /\ UNCHANGED serverVars
  /\ UNCHANGED cliVars

ServerNext ==
  \/ \E body \in PostBodies : Post(body)
  \/ \E id \in IdParams, body \in PutBodies : Put(id, body)
  \/ \E id \in IdParams : Delete(id)
  \/ GetBalance
  \/ GetSummary
  \/ \E q \in LimitParams : GetRecent(q)
  \/ GetTransactions

(* -------------------------------- cli.js -------------------------------- *)

\* the lines a user answers to each prompt
ChoiceLines == { <<DigitChars[c + 1]>> : c \in 1..9 }

DescriptionLines == { <<" ", "A", " ">>, <<" ">> }

AmountLines == { <<"5">>, <<"0">>, <<"-", "5">>, <<"a">> }

SearchLines == { <<>>, <<"a">>, <<"z">> }

DeleteLines == { <<"0">>, <<"1">>, <<"2">>, <<"9">>, <<"-", "1">>, <<"a">> }

\* one console.log or console.error: the text and the value shown with it
Say(text) == [text |-> text, value |-> Undef]

Show(text, v) == [text |-> text, value |-> v]

\* loadTransactions: the parsed file, or [] when reading or parsing throws
loadTransactions(ok) == IF ok THEN dataFile ELSE <<>>

loadOut(ok) == IF ok THEN <<>> ELSE <<Say("Error loading transactions")>>

\* JSON.parse(JSON.stringify(transactions)): what a later load reads back
Stringify(arr) == [i \in 1..Len(arr) |-> [arr[i] EXCEPT !.amount = JsonValue(arr[i].amount)]]

\* saveTransactions: the content of the file afterwards; a failed write leaves it
saveTransactions(arr, ok) == IF ok THEN Stringify(arr) ELSE dataFile

saveOut(ok) ==
  IF ok THEN <<Say("Transactions saved successfully.")>>
  ELSE <<Say("Error saving transactions")>>

\* formatCurrency calls amount.toFixed, which throws on null
formatCurrencyThrows(amount) == amount.k \notin {"num", "nan", "inf"}

RECURSIVE calculateBalanceFrom(_, _)
calculateBalanceFrom(balance, arr) ==
  IF arr = <<>> THEN balance
  ELSE calculateBalanceFrom(
         IF StrictEq(Head(arr).type, Str(INCOME))
         THEN JsAdd(balance, Head(arr).amount)
         ELSE JsSub(balance, Head(arr).amount),
         Tail(arr))

calculateBalance(arr) == calculateBalanceFrom(Num(0), arr)

\* viewTransactions: what it prints, and whether a row makes formatCurrency throw
viewTransactionsThrows(arr) == \E i \in 1..Len(arr) : formatCurrencyThrows(arr[i].amount)

viewTransactionsOut(arr) ==
  IF arr = <<>> THEN <<Say("No transactions found.")>>
  ELSE <<Say("All Transactions:"), Show("Current Balance", calculateBalance(arr))>>

\* viewBalance: the three figures it prints
viewBalanceOut(arr) ==
  << Show("Current Balance", calculateBalance(arr)),
     Show("Total Income", SumAmounts(Num(0), FilterType(arr, INCOME))),
     Show("Total Expenses", SumAmounts(Num(0), FilterType(arr, EXPENSE))) >>

LowerOf(c) ==
  CASE c = "A" -> "a"
    [] c = "B" -> "b"
    [] c = "Z" -> "z"
    [] OTHER -> c

\* toLowerCase left out: the comparison keeps the case
KeepCase(chars) == chars

\* String.prototype.toLowerCase
ToLowerCase(chars) == [i \in 1..Len(chars) |-> LowerOf(chars[i])]

\* String.prototype.includes
Includes(chars, part) ==
  \E i \in 0..(Len(chars) - Len(part)) : SubSeq(chars, i + 1, i + Len(part)) = part

\* transactions.filter(t => t.description.toLowerCase().includes(query.toLowerCase()))
RECURSIVE Search(_, _)
Search(arr, query) ==
  IF arr = <<>> THEN <<>>
  ELSE IF Includes(ToLowerCase(Head(arr).description.s), ToLowerCase(query))
       THEN <<Head(arr)>> \o Search(Tail(arr), query)
       ELSE Search(Tail(arr), query)

\* the header line of the export
CsvHeader ==
  << "D", "a", "t", "e", ",",
     "D", "e", "s", "c", "r", "i", "p", "t", "i", "o", "n", ",",
     "A", "m", "o", "u", "n", "t", ",",
     "T", "y", "p", "e", "\n" >>

\* new Date(primeId).toLocaleDateString(): every clock value of the model is a
\* millisecond of the first day of 1970
LocaleDate(primeId) == <<"1", "/", "1", "/", "1", "9", "7", "0">>

\* `${date},"${t.description}",${t.amount},${t.type}`
CsvRow(t) ==
  LocaleDate(t.primeId) \o <<",", "\"">> \o ToStr(t.description) \o <<"\"", ",">>
    \o ToStr(t.amount) \o <<",">> \o ToStr(t.type)

\* rows.join('\n')
RECURSIVE JoinRows(_)
JoinRows(arr) ==
  IF arr = <<>> THEN <<>>
  ELSE IF Len(arr) = 1 THEN CsvRow(arr[1])
  ELSE CsvRow(Head(arr)) \o <<"\n">> \o JoinRows(Tail(arr))

\* csvContent of exportToCSV
CsvContent(arr) == CsvHeader \o JoinRows(arr)

\* the lines searchTransactions prints: the count, then one line per result until
\* formatCurrency throws
RECURSIVE ResultLines(_)
ResultLines(results) ==
  IF results = <<>> \/ formatCurrencyThrows(Head(results).amount) THEN <<>>
  ELSE <<[text |-> "result", value |-> Head(results)]>> \o ResultLines(Tail(results))

searchOut(results) ==
  IF results = <<>> THEN <<Say("No transactions found matching your search.")>>
  ELSE <<Show("Found", Num(Len(results)))>> \o ResultLines(results)

\* rl.question(prompt, callback), called by a callback: the answered question is
\* gone and this one is outstanding
Question(prompt) ==
  /\ pc' = prompt
  /\ questions' = (questions - 1) + 1

\* an uncaught exception ends the process
Crash(printed) ==
  /\ crashed' = TRUE
  /\ pc' = "closed"
  /\ questions' = 0
  /\ out' = printed

\* mainMenu(): displayMenu and the next rl.question
MainMenu(printed) ==
  /\ crashed' = FALSE
  /\ Question("menu")
  /\ out' = printed

\* the callback of mainMenu's rl.question
AnswerMenu(choice, loadOk, writeOk) ==
  /\ proc = "cli"
  /\ pc = "menu"
  /\ line' = choice
  /\ act' = "AnswerMenu"
  /\ LET arr == loadTransactions(loadOk)
     IN /\ exported' = IF choice = <<"7">> /\ arr # <<>> /\ writeOk
                       THEN CsvContent(arr)
                       ELSE <<>>
        /\ CASE choice = <<"1">> ->
               /\ IF viewTransactionsThrows(arr)
                  THEN Crash(loadOut(loadOk) \o <<Say("All Transactions:")>>)
                  ELSE MainMenu(loadOut(loadOk) \o viewTransactionsOut(arr))
               /\ UNCHANGED addType
          [] choice = <<"2">> ->
               /\ Question("description")
               /\ addType' = INCOME
               /\ out' = <<>>
               /\ UNCHANGED crashed
          [] choice = <<"3">> ->
               /\ Question("description")
               /\ addType' = EXPENSE
               /\ out' = <<>>
               /\ UNCHANGED crashed
          [] choice = <<"4">> ->
               /\ MainMenu(loadOut(loadOk) \o viewBalanceOut(arr))
               /\ UNCHANGED addType
          [] choice = <<"5">> ->
               /\ Question("search")
               /\ out' = <<>>
               /\ UNCHANGED <<addType, crashed>>
          [] choice = <<"6">> ->
               /\ IF viewTransactionsThrows(arr)
                  THEN Crash(loadOut(loadOk) \o <<Say("All Transactions:")>>)
                  ELSE /\ Question("delete")
                       /\ out' = loadOut(loadOk) \o viewTransactionsOut(arr)
                       /\ UNCHANGED crashed
               /\ UNCHANGED addType
          [] choice = <<"7">> ->
               /\ IF arr = <<>>
                  THEN MainMenu(loadOut(loadOk) \o <<Say("No transactions to export.")>>)
                  ELSE IF writeOk
                       THEN MainMenu(<<Say("Transactions exported")>>)
                       ELSE Crash(<<>>)
               /\ UNCHANGED addType
          [] choice = <<"8">> ->
               \* rl.close()
               /\ pc' = "closed"
               /\ questions' = 0
               /\ out' = <<Say("Goodbye!")>>
               /\ UNCHANGED <<addType, crashed>>
          [] OTHER ->
               /\ MainMenu(<<Say("Invalid choice. Please try again.")>>)
               /\ UNCHANGED addType
  /\ UNCHANGED <<proc, now, issued, dataFile, description>>
  /\ UNCHANGED serverVars

\* addTransaction: the callback of the description prompt
AnswerDescription(answer) ==
  /\ proc = "cli"
  /\ pc = "description"
  /\ line' = answer
  /\ act' = "AnswerDescription"
  /\ description' = answer
  /\ Question("amount")
  /\ out' = <<>>
  /\ exported' = <<>>
  /\ UNCHANGED <<proc, now, issued, dataFile, addType, crashed>>
  /\ UNCHANGED serverVars

\* addTransaction: the callback of the amount prompt
AnswerAmount(amountStr, loadOk, saveOk) ==
  /\ proc = "cli"
  /\ pc = "amount"
  /\ line' = amountStr
  /\ act' = "AnswerAmount"
  /\ LET amount == ParseFloat(Str(amountStr))
         transaction == [ primeId |-> Num(now),
                          description |-> Str(Trim(description)),
                          amount |-> amount,
                          type |-> Str(addType) ]
     IN IF amount.k = "nan" \/ NumLeq(amount, Num(0))
        THEN /\ MainMenu(<<Say("Invalid amount. Please enter a positive number.")>>)
             /\ UNCHANGED <<dataFile, issued>>
        ELSE /\ Len(dataFile) < MaxLen
             /\ dataFile' = saveTransactions(Push(loadTransactions(loadOk), transaction), saveOk)
             /\ issued' = issued \cup {transaction.primeId}
             /\ MainMenu(loadOut(loadOk) \o saveOut(saveOk) \o <<Say("added successfully!")>>)
  /\ addType' = <<>>
  /\ description' = <<>>
  /\ exported' = <<>>
  /\ UNCHANGED <<proc, now>>
  /\ UNCHANGED serverVars

\* searchTransactions: the callback of the search prompt
AnswerSearch(query, loadOk) ==
  /\ proc = "cli"
  /\ pc = "search"
  /\ line' = query
  /\ act' = "AnswerSearch"
  /\ LET results == Search(loadTransactions(loadOk), query)
     IN IF viewTransactionsThrows(results)
        THEN Crash(loadOut(loadOk) \o searchOut(results))
        ELSE MainMenu(loadOut(loadOk) \o searchOut(results))
  /\ exported' = <<>>
  /\ UNCHANGED <<proc, now, issued, dataFile, addType, description>>
  /\ UNCHANGED serverVars

\* deleteTransaction: the callback of the delete prompt
AnswerDelete(idStr, loadOk, saveOk) ==
  /\ proc = "cli"
  /\ pc = "delete"
  /\ line' = idStr
  /\ act' = "AnswerDelete"
  /\ LET id == ParseInt(Str(idStr))
         arr == loadTransactions(loadOk)
         \* splice(id - 1, 1): NaN as start is 0
         start == IF id.k = "nan" THEN 1 ELSE id.n
     IN IF StrictEq(id, Num(0))
        THEN /\ MainMenu(<<>>)
             /\ UNCHANGED dataFile
        ELSE IF NumLess(id, Num(1)) \/ NumLess(Num(Len(arr)), id)
        THEN /\ MainMenu(loadOut(loadOk) \o <<Say("Invalid transaction ID.")>>)
             /\ UNCHANGED dataFile
        ELSE /\ dataFile' = saveTransactions(Splice(arr, start), saveOk)
             /\ IF start > Len(arr)
                THEN Crash(loadOut(loadOk) \o saveOut(saveOk))
                ELSE MainMenu(loadOut(loadOk) \o saveOut(saveOk)
                                \o <<Say("deleted successfully.")>>)
  /\ exported' = <<>>
  /\ UNCHANGED <<proc, now, issued, addType, description>>
  /\ UNCHANGED serverVars

CliNext ==
  \/ \E choice \in ChoiceLines, loadOk \in BOOLEAN, writeOk \in BOOLEAN :
       AnswerMenu(choice, loadOk, writeOk)
  \/ \E answer \in DescriptionLines : AnswerDescription(answer)
  \/ \E amountStr \in AmountLines, loadOk \in BOOLEAN, saveOk \in BOOLEAN :
       AnswerAmount(amountStr, loadOk, saveOk)
  \/ \E query \in SearchLines, loadOk \in BOOLEAN : AnswerSearch(query, loadOk)
  \/ \E idStr \in DeleteLines, loadOk \in BOOLEAN, saveOk \in BOOLEAN :
       AnswerDelete(idStr, loadOk, saveOk)

(* ---------------------------- specification ---------------------------- *)

Init ==
  /\ proc \in {"server", "cli"}
  /\ now = 1
  /\ act = "start"
  /\ transactions = <<>>
  /\ req = NoReq
  /\ res = [status |-> 0, body |-> ""]
  /\ issued = {}
  /\ dataFile = <<>>
  /\ pc = IF proc = "cli" THEN "menu" ELSE "closed"
  /\ addType = <<>>
  /\ description = <<>>
  /\ line = <<>>
  /\ out = <<>>
  /\ exported = <<>>
  /\ questions = IF proc = "cli" THEN 1 ELSE 0
  /\ crashed = FALSE

Next ==
  \/ ServerNext
  \/ CliNext
  \/ Tick

Spec == Init /\ [][Next]_vars

\* Search and export over ledgers whose descriptions hold capitals, commas and
\* double quotes: each ledger is what adds of these descriptions leave in the file.
LedgerDescriptions ==
  { <<"A", "b">>, <<"B">>, <<"b", ",", "a">>, <<"a", "\"", "b">> }

LedgerRecords ==
  { [ primeId |-> Num(1), description |-> Str(d), amount |-> Num(5), type |-> Str(t) ] :
      d \in LedgerDescriptions, t \in {INCOME, EXPENSE} }

Ledgers == UNION { [1..n -> LedgerRecords] : n \in 0..MaxLen }

SearchQueries == { <<>>, <<"a">>, <<"a", "B">>, <<"b", "a">>, <<",">>, <<"z">> }

InitLedger ==
  /\ proc = "cli"
  /\ now = 1
  /\ act = "start"
  /\ transactions = <<>>
  /\ req = NoReq
  /\ res = [status |-> 0, body |-> ""]
  /\ dataFile \in Ledgers
  /\ issued = { dataFile[i].primeId : i \in 1..Len(dataFile) }
  /\ pc = "menu"
  /\ addType = <<>>
  /\ description = <<>>
  /\ line = <<>>
  /\ out = <<>>
  /\ exported = <<>>
  /\ questions = 1
  /\ crashed = FALSE

NextLedger ==
  \/ \E choice \in {<<"5">>, <<"7">>}, loadOk \in BOOLEAN, writeOk \in BOOLEAN :
       AnswerMenu(choice, loadOk, writeOk)
  \/ \E query \in SearchQueries, loadOk \in BOOLEAN : AnswerSearch(query, loadOk)

SpecLedger == InitLedger /\ [][NextLedger]_vars

(* ------------------------------- claims -------------------------------- *)

PositiveNumber(v) == v.k = "num" /\ v.n > 0

NonEmptyText(v) == v.k = "str" /\ Trim(v.s) # <<>>

SaidIn(printed, text) == \E i \in 1..Len(printed) : printed[i].text = text

RECURSIVE IsSubsequence(_, _)
IsSubsequence(a, b) ==
  IF a = <<>> THEN TRUE
  ELSE IF b = <<>> THEN FALSE
  ELSE IF Head(a) = Head(b) THEN IsSubsequence(Tail(a), Tail(b))
  ELSE IsSubsequence(a, Tail(b))

\* C1: in every reachable state the reported balance equals the reported income
\* total minus the reported expense total: GET /api/balance against the totals of
\* GET /api/summary, and calculateBalance against the sums of viewBalance.
BalanceIsIncomeMinusExpense ==
  /\ ApiBalance(transactions) =
       JsSub(ApiSummary(transactions).totalIncome, ApiSummary(transactions).totalExpense)
  /\ calculateBalance(dataFile) =
       JsSub(viewBalanceOut(dataFile)[2].value, viewBalanceOut(dataFile)[3].value)

\* C2: an add or update that supplies a zero, negative or non-numeric amount fails
\* with a validation error and leaves the store unchanged, so every stored
\* transaction has amount > 0.
AmountPositiveEnforced ==
  [][ /\ (act' = "Post" /\ ~PositiveNumber(req'.body.amount))
           => (res'.status >= 400 /\ transactions' = transactions)
      /\ (act' = "Put" /\ req'.body.amount # Undef /\ ~PositiveNumber(req'.body.amount))
           => (res'.status >= 400 /\ transactions' = transactions)
      /\ (act' = "AnswerAmount" /\ ~PositiveNumber(ToNumber(Str(line'))))
           => (/\ SaidIn(out', "Invalid amount. Please enter a positive number.")
               /\ dataFile' = dataFile)
      /\ \A i \in 1..Len(transactions') : PositiveNumber(transactions'[i].amount)
      /\ \A i \in 1..Len(dataFile') : PositiveNumber(dataFile'[i].amount)
    ]_vars

\* C3: no two stored transactions have the same id, and an id assigned by an add
\* is never equal to an id assigned earlier, also when the earlier transaction
\* was deleted and when several adds fall in one clock tick.
IdsUnique ==
  [][ /\ act' = "Post" => res'.body.id \notin issued
      /\ (act' = "AnswerAmount" /\ SaidIn(out', "added successfully!"))
           => Num(now) \notin issued
      /\ \A i, j \in 1..Len(transactions') :
           i # j => transactions'[i].id # transactions'[j].id
      /\ \A i, j \in 1..Len(dataFile') :
           i # j => dataFile'[i].primeId # dataFile'[j].primeId
    ]_vars

\* C4: a successful update changes only the supplied description, amount and type
\* of the addressed record: its id is as before, and so is every other record.
UpdateChangesOnlySuppliedFields ==
  [][ (act' = "Put" /\ res'.status = 200) =>
        LET index == FindIndex(transactions, req'.id)
        IN /\ Len(transactions') = Len(transactions)
           /\ transactions'[index].id = transactions[index].id
           /\ \A f \in {"description", "amount", "type"} :
                req'.body[f] = Undef => transactions'[index][f] = transactions[index][f]
           /\ \A j \in 1..Len(transactions) :
                j # index => transactions'[j] = transactions[j]
    ]_vars

\* C5: an update or delete addressed to an id that no stored transaction has
\* answers 404 and leaves the store unchanged: same length, records and order.
NotFoundLeavesStore ==
  [][ (/\ act' \in {"Put", "Delete"}
       /\ \A i \in 1..Len(transactions) : transactions[i].id # req'.id)
        => (res'.status = 404 /\ transactions' = transactions)
    ]_vars

\* C5: a delete of an unknown id was answered 404 while the store held two records.
NotFoundWitness ==
  /\ act = "Delete"
  /\ res.status = 404
  /\ Len(transactions) >= 2
  /\ \A i \in 1..Len(transactions) : transactions[i].id # req.id

\* the entered line is a decimal integer, as the position prompt expects
EnteredInteger(chars) ==
  /\ Unsigned(chars) # <<>>
  /\ DigitPrefix(Unsigned(chars)) = Unsigned(chars)

EnteredValue(chars) == SignOf(chars) * DigitsToNat(Unsigned(chars))

\* C6: delete by position fails with an out-of-range error for every entered value,
\* other than the cancel value 0, that is not an integer in [1, length]; nothing
\* is removed then and the saved ledger is unchanged.
DeleteRejectsOutOfRange ==
  [][ (/\ act' = "AnswerDelete"
       /\ ~(EnteredInteger(line') /\ EnteredValue(line') = 0)
       /\ ~(/\ EnteredInteger(line')
            /\ EnteredValue(line') >= 1
            /\ EnteredValue(line') <= Len(dataFile)))
        => (SaidIn(out', "Invalid transaction ID.") /\ dataFile' = dataFile)
    ]_vars

\* the limit n of the claim: 10 when unspecified or non-numeric
RequestedLimit(q) == IF ToNumber(q).k = "num" THEN ToNumber(q).n ELSE 10

\* C7: recent returns the empty sequence when n <= 0, all of the ledger in order
\* when n >= its length, the last n transactions in order otherwise, with n = 10
\* when the limit is unspecified or non-numeric.
RecentReturnsLastN ==
  [][ act' = "GetRecent" =>
        LET n == RequestedLimit(req'.limit)
            len == Len(transactions)
        IN res'.body = IF n <= 0 THEN <<>>
                       ELSE IF n >= len THEN transactions
                       ELSE SubSeq(transactions, len - n + 1, len)
    ]_vars

\* C8: add fails with a validation error and stores nothing when the description
\* is empty after trimming, so every stored transaction has a non-empty trimmed
\* description.
DescriptionNonEmptyEnforced ==
  [][ /\ (act' = "Post" /\ ~NonEmptyText(req'.body.description))
           => (res'.status >= 400 /\ transactions' = transactions)
      /\ (act' = "AnswerAmount" /\ Trim(description) = <<>>)
           => (~SaidIn(out', "added successfully!") /\ dataFile' = dataFile)
      /\ \A i \in 1..Len(transactions') : NonEmptyText(transactions'[i].description)
      /\ \A i \in 1..Len(dataFile') : NonEmptyText(dataFile'[i].description)
    ]_vars

\* C9: in every reachable state every stored transaction has type income or
\* expense, in the service's array and in the CLI's file.
TypeIsIncomeOrExpense ==
  /\ \A i \in 1..Len(transactions) : transactions[i].type \in {Str(INCOME), Str(EXPENSE)}
  /\ \A i \in 1..Len(dataFile) : dataFile[i].type \in {Str(INCOME), Str(EXPENSE)}

\* C10: the store keeps insertion order: an add puts the new transaction last, an
\* update keeps every record at its position, and every step leaves the surviving
\* transactions in the order they had, here and across load and save in the CLI.
OrderReflectsInsertion ==
  [][ /\ act' = "Post" => transactions' = transactions \o <<res'.body>>
      /\ act' = "Put" =>
           /\ Len(transactions') = Len(transactions)
           /\ \A j \in 1..Len(transactions) :
                j # FindIndex(transactions, req'.id) => transactions'[j] = transactions[j]
      /\ act' = "Delete" => IsSubsequence(transactions', transactions)
      /\ act' \notin {"Post", "Put", "Delete"} => transactions' = transactions
      /\ (act' = "AnswerAmount" /\ dataFile' # dataFile) =>
           /\ dataFile'[Len(dataFile')].primeId = Num(now)
           /\ dataFile'[Len(dataFile')].description = Str(Trim(description))
           /\ IsSubsequence(SubSeq(dataFile', 1, Len(dataFile') - 1), dataFile)
      /\ act' = "AnswerDelete" => IsSubsequence(dataFile', dataFile)
      /\ act' \notin {"AnswerAmount", "AnswerDelete"} => dataFile' = dataFile
    ]_vars

\* C10: an add has just put a transaction behind a different, older one, in the
\* service's array or in the CLI's file.
OrderWitness ==
  \/ /\ act = "Post"
     /\ Len(transactions) >= 2
     /\ transactions[1] # transactions[2]
  \/ /\ act = "AnswerAmount"
     /\ Len(dataFile) >= 2
     /\ dataFile[1] # dataFile[2]

\* C11: a successful delete by id removes exactly one record, one whose id is the
\* requested id: the store is one shorter and the other records are unchanged and
\* keep their order.
DeleteRemovesExactlyOne ==
  [][ (/\ act' = "Delete"
       /\ \E i \in 1..Len(transactions) : transactions[i].id = req'.id)
        => /\ res'.status = 204
           /\ Len(transactions') = Len(transactions) - 1
           /\ \E i \in 1..Len(transactions) :
                /\ transactions[i].id = req'.id
                /\ \A j \in 1..(i - 1) : transactions'[j] = transactions[j]
                /\ \A j \in (i + 1)..Len(transactions) : transactions'[j - 1] = transactions[j]
    ]_vars

\* C11: a delete by id was answered 204 and left a record in the store.
DeleteWitness ==
  /\ act = "Delete"
  /\ res.status = 204
  /\ Len(transactions) >= 1
  /\ \A i \in 1..Len(transactions) : transactions[i].id # req.id

\* the same letter, whatever its case
SameLetter(c, d) ==
  \/ c = d
  \/ {c, d} \in {{"a", "A"}, {"b", "B"}, {"z", "Z"}}

\* text contains part as a substring, compared case-insensitively
ContainsIgnoringCase(text, part) ==
  \E i \in 0..(Len(text) - Len(part)) :
    \A k \in 1..Len(part) : SameLetter(text[i + k], part[k])

\* the transactions of the result lines, in the order printed
RECURSIVE ResultsOf(_)
ResultsOf(printed) ==
  IF printed = <<>> THEN <<>>
  ELSE IF Head(printed).text = "result"
       THEN <<Head(printed).value>> \o ResultsOf(Tail(printed))
       ELSE ResultsOf(Tail(printed))

NeverCrashes ==
  /\ act \in {"AnswerDescription", "AnswerAmount", "AnswerDelete"} => ~crashed
  /\ act \in {"Put", "Delete"} => res.status \in {200, 204, 404}

\* A CSV reader: rows end at line breaks and fields at commas, unless the break or
\* comma stands inside double quotes (after an odd number of quote characters); a
\* field written between double quotes loses them, a doubled quote inside it
\* standing for one.
Unquoted(text, i) == Cardinality({j \in 1..(i - 1) : text[j] = "\""}) % 2 = 0

RECURSIVE SplitFrom(_, _, _)
SplitFrom(text, from, sep) ==
  LET cuts == {i \in from..Len(text) : text[i] = sep /\ Unquoted(text, i)}
  IN IF cuts = {} THEN <<SubSeq(text, from, Len(text))>>
     ELSE LET cut == CHOOSE i \in cuts : \A j \in cuts : i <= j
          IN <<SubSeq(text, from, cut - 1)>> \o SplitFrom(text, cut + 1, sep)

RECURSIVE Undoubled(_)
Undoubled(chars) ==
  IF chars = <<>> THEN <<>>
  ELSE IF Len(chars) >= 2 /\ chars[1] = "\"" /\ chars[2] = "\""
       THEN <<"\"">> \o Undoubled(SubSeq(chars, 3, Len(chars)))
       ELSE <<Head(chars)>> \o Undoubled(Tail(chars))

FieldValue(raw) ==
  IF Len(raw) >= 2 /\ raw[1] = "\"" /\ raw[Len(raw)] = "\""
  THEN Undoubled(SubSeq(raw, 2, Len(raw) - 1))
  ELSE raw

\* the rows of the text, each the sequence of its field values
ParseCsv(text) ==
  LET lines == SplitFrom(text, 1, "\n")
  IN [i \in 1..Len(lines) |->
        LET raws == SplitFrom(lines[i], 1, ",")
        IN [k \in 1..Len(raws) |-> FieldValue(raws[k])]]

\* C14: the text of a CSV export, parsed back, has the header and one row per
\* transaction in ledger order, and each row gives back the description, the
\* amount and the type of its transaction, also when the description holds
\* commas or double quotes.
CsvRoundTrip ==
  [][ (act' = "AnswerMenu" /\ SaidIn(out', "Transactions exported")) =>
        LET rows == ParseCsv(exported')
        IN /\ Len(rows) = Len(dataFile) + 1
           /\ rows[1] = << <<"D", "a", "t", "e">>,
                           <<"D", "e", "s", "c", "r", "i", "p", "t", "i", "o", "n">>,
                           <<"A", "m", "o", "u", "n", "t">>,
                           <<"T", "y", "p", "e">> >>
           /\ \A i \in 1..Len(dataFile) :
                /\ Len(rows[i + 1]) = 4
                /\ rows[i + 1][2] = dataFile[i].description.s
                /\ ToNumber(Str(rows[i + 1][3])) = dataFile[i].amount
                /\ rows[i + 1][4] = dataFile[i].type.s
    ]_vars

\* the callback that ran ended its handler: a menu choice other than add, search,
\* delete and exit, or the last prompt of add, search or delete
EndsHandler(a, l) ==
  \/ a = "AnswerMenu" /\ l \notin {<<"2">>, <<"3">>, <<"5">>, <<"6">>, <<"8">>}
  \/ a \in {"AnswerAmount", "AnswerSearch", "AnswerDelete"}

\* C15: no concurrent prompts are in flight: at most one rl.question is outstanding
\* in every state, every handler path ends by issuing the main-menu prompt exactly
\* once, and after Exit no prompt is issued and nothing is written to the store.
OnePromptInFlight ==
  [][ /\ questions' <= 1
      /\ EndsHandler(act', line') => (pc' = "menu" /\ questions' = 1)
      /\ (act' = "AnswerMenu" /\ line' = <<"8">>) => (questions' = 0 /\ dataFile' = dataFile)
      /\ pc = "closed" => (questions' = 0 /\ dataFile' = dataFile)
    ]_vars

\* C16: when saveTransactions fails during a CLI add or delete, the operation is
\* not reported as having succeeded: neither "added successfully" nor "deleted
\* successfully" is shown after the save error.
SaveFailureSurfaced ==
  [][ (act' \in {"AnswerAmount", "AnswerDelete"} /\ SaidIn(out', "Error saving transactions")) =>
        /\ ~SaidIn(out', "added successfully!")
        /\ ~SaidIn(out', "deleted successfully.") ]_vars

\* C17: when loadTransactions fails during a CLI add or delete, the save that
\* follows does not leave the data file without a transaction it held before.
FailedLoadKeepsData ==
  [][ (act' \in {"AnswerAmount", "AnswerDelete"} /\ SaidIn(out', "Error loading transactions")) =>
        IsSubsequence(dataFile, dataFile') ]_vars

\* the CLI alone
InitLive == Init /\ proc = "cli"

NextLive ==
  \/ CliNext
  \/ Tick

\* the user answers every prompt that is outstanding: readline calls the callback
\* of an rl.question once a line is entered
SpecLive == InitLive /\ [][NextLive]_vars /\ WF_vars(CliNext)

\* C18: when the user answers each outstanding prompt, every menu choice other
\* than Exit (8) eventually leads to the main-menu prompt being shown again, for
\* every ledger and every answer given to the sub-prompts.
MenuChoiceLeadsBackToMenu ==
  (act = "AnswerMenu" /\ line # <<"8">>) ~> (pc = "menu")

====
